---- MODULE Spec2Model ----
(***************************************************************************)
(* Model of the genbot Lambda handlers:                                    *)
(*   - the inline Generator        (src/unnamed/part_000, handler)         *)
(*   - the signed-URL Generator    (src/unnamed/part_001:128, handler)     *)
(*   - the retrieval-URL Generator (src/unnamed/part_001:285, handler)     *)
(*   - the Retriever               (src/retrieve.js, handler)              *)
(*                                                                         *)
(* Text is a sequence of pieces.  The pieces of identifiers, keys, paths   *)
(* and Base64 text are single characters or atomic name parts and "/" is   *)
(* always a piece of its own; the fixed phrases of the literals are one    *)
(* piece each.  Bytes are sequences of numbers 0..255.                     *)
(***************************************************************************)
EXTENDS Integers, Sequences, FiniteSets, TLC

(***************************************************************************)
(* Bounds of the model.                                                    *)
(***************************************************************************)
\* Longest image (in bytes) the model service returns.
MaxImageLen == 3
\* Number of invocations that run concurrently in SpecConc.
NumInv == 2

(***************************************************************************)
(* JavaScript values.                                                      *)
(***************************************************************************)
Undefined == [t |-> "undefined"]
JNull == [t |-> "null"]
JNaN == [t |-> "nan"]
JStr(s) == [t |-> "string", v |-> s]
JNum(n) == [t |-> "number", v |-> n]
JBool(b) == [t |-> "boolean", v |-> b]
JArr(a) == [t |-> "array", v |-> a]
JObj(f) == [t |-> "object", v |-> f]

\* The outcome of an expression that may throw.
Throw == [ok |-> FALSE]
Ok(v) == [ok |-> TRUE, v |-> v]

\* o.f : a TypeError on undefined and null, undefined for a missing field.
Get(o, f) ==
  IF o.t \in {"undefined", "null"} THEN Throw
  ELSE IF o.t = "object" /\ f \in DOMAIN o.v THEN Ok(o.v[f])
  ELSE Ok(Undefined)

\* a[0] on the value a.
First(a) ==
  IF a.t \in {"undefined", "null"} THEN Throw
  ELSE IF a.t = "array" /\ Len(a.v) > 0 THEN Ok(a.v[1])
  ELSE Ok(Undefined)

Digits == <<"0", "1", "2", "3", "4", "5", "6", "7", "8", "9">>

RECURSIVE NumToStr(_)
\* The decimal text of a natural number.
NumToStr(n) ==
  IF n < 10 THEN <<Digits[n + 1]>>
  ELSE NumToStr(n \div 10) \o <<Digits[(n % 10) + 1]>>

DigitValue(c) == CHOOSE d \in 0..9 : Digits[d + 1] = c

RECURSIVE DigitsToNum(_)
DigitsToNum(s) ==
  IF s = <<>> THEN 0
  ELSE 10 * DigitsToNum(SubSeq(s, 1, Len(s) - 1)) + DigitValue(s[Len(s)])

\* ToNumber of a string: the empty string is 0, decimal digits are their
\* value, any other text is NaN.
StringToNumber(s) ==
  IF \A k \in 1..Len(s) : \E d \in 1..10 : Digits[d] = s[k]
  THEN JNum(DigitsToNum(s))
  ELSE JNaN

\* The text an array element contributes to Array.prototype.join.
ElementText(e) ==
  IF e.t = "string" THEN e.v
  ELSE IF e.t = "number" THEN NumToStr(e.v)
  ELSE IF e.t = "boolean" THEN (IF e.v THEN <<"true">> ELSE <<"false">>)
  ELSE <<>>

RECURSIVE Join(_)
Join(a) ==
  IF a = <<>> THEN <<>>
  ELSE IF Len(a) = 1 THEN ElementText(a[1])
  ELSE ElementText(a[1]) \o <<",">> \o Join(Tail(a))

\* ToPrimitive of an array or object.
ToPrimitive(x) ==
  IF x.t = "array" THEN JStr(Join(x.v)) ELSE JStr(<<"[object Object]">>)

\* A template literal's text of a value.
ToText(x) ==
  IF x.t = "string" THEN x.v
  ELSE IF x.t = "number" THEN NumToStr(x.v)
  ELSE IF x.t \in {"array", "object"} THEN ToPrimitive(x).v
  ELSE IF x.t = "boolean" THEN (IF x.v THEN <<"true">> ELSE <<"false">>)
  ELSE <<x.t>>

Truthy(x) ==
  CASE x.t \in {"undefined", "null", "nan"} -> FALSE
    [] x.t = "string" -> x.v # <<>>
    [] x.t = "number" -> x.v # 0
    [] x.t = "boolean" -> x.v
    [] OTHER -> TRUE

\* x === y for values of which at most one is an array or object.
StrictEq(x, y) ==
  /\ x.t = y.t
  /\ x.t \notin {"nan", "array", "object"}
  /\ (x.t \in {"string", "number", "boolean"} => x.v = y.v)

\* Faulty variant of LooseEq: the comparison made with ===.
LooseEq_strict(x, y) == StrictEq(x, y)

RECURSIVE LooseEq(_, _)
\* x == y, the abstract equality comparison of JavaScript.
LooseEq(x, y) ==
  IF x.t = y.t \/ (x.t \in {"number", "nan"} /\ y.t \in {"number", "nan"})
    THEN StrictEq(x, y)
  ELSE IF x.t \in {"undefined", "null"} \/ y.t \in {"undefined", "null"}
    THEN x.t \in {"undefined", "null"} /\ y.t \in {"undefined", "null"}
  ELSE IF x.t \in {"number", "nan"} /\ y.t = "string"
    THEN LooseEq(x, StringToNumber(y.v))
  ELSE IF x.t = "string" /\ y.t \in {"number", "nan"}
    THEN LooseEq(StringToNumber(x.v), y)
  ELSE IF x.t = "boolean" THEN LooseEq(JNum(IF x.v THEN 1 ELSE 0), y)
  ELSE IF y.t = "boolean" THEN LooseEq(x, JNum(IF y.v THEN 1 ELSE 0))
  ELSE IF x.t \in {"array", "object"} /\ y.t \notin {"array", "object"}
    THEN LooseEq(ToPrimitive(x), y)
  ELSE IF y.t \in {"array", "object"} /\ x.t \notin {"array", "object"}
    THEN LooseEq(x, ToPrimitive(y))
  ELSE FALSE

(***************************************************************************)
(* Base64                                                                  *)
(***************************************************************************)
B64Alphabet ==
  <<"A", "B", "C", "D", "E", "F", "G", "H", "I", "J", "K", "L", "M",
    "N", "O", "P", "Q", "R", "S", "T", "U", "V", "W", "X", "Y", "Z",
    "a", "b", "c", "d", "e", "f", "g", "h", "i", "j", "k", "l", "m",
    "n", "o", "p", "q", "r", "s", "t", "u", "v", "w", "x", "y", "z",
    "0", "1", "2", "3", "4", "5", "6", "7", "8", "9", "+", "/">>

B64Char(n) == B64Alphabet[n + 1]
B64Value(c) == CHOOSE n \in 0..63 : B64Alphabet[n + 1] = c
IsB64Char(c) == \E n \in 1..64 : B64Alphabet[n] = c

RECURSIVE toBase64(_)
\* Bytes to Base64 text: three bytes are four characters, "=" pads the end.
toBase64(bytes) ==
  IF bytes = <<>> THEN <<>>
  ELSE IF Len(bytes) = 1 THEN
    <<B64Char(bytes[1] \div 4), B64Char((bytes[1] % 4) * 16), "=", "=">>
  ELSE IF Len(bytes) = 2 THEN
    <<B64Char(bytes[1] \div 4),
      B64Char((bytes[1] % 4) * 16 + bytes[2] \div 16),
      B64Char((bytes[2] % 16) * 4), "=">>
  ELSE
    <<B64Char(bytes[1] \div 4),
      B64Char((bytes[1] % 4) * 16 + bytes[2] \div 16),
      B64Char((bytes[2] % 16) * 4 + bytes[3] \div 64),
      B64Char(bytes[3] % 64)>> \o toBase64(SubSeq(bytes, 4, Len(bytes)))

\* The padding "=" characters at the end of a Base64 text (0, 1 or 2).
PadLen(s) ==
  IF Len(s) >= 2 /\ s[Len(s)] = "=" /\ s[Len(s) - 1] = "=" THEN 2
  ELSE IF Len(s) >= 1 /\ s[Len(s)] = "=" THEN 1
  ELSE 0

RECURSIVE B64Decode(_)
B64Decode(s) ==
  IF s = <<>> THEN <<>>
  ELSE LET a == B64Value(s[1])
           b == B64Value(s[2])
       IN IF s[3] = "=" THEN <<a * 4 + b \div 16>>
          ELSE LET c == B64Value(s[3])
               IN IF s[4] = "="
                    THEN <<a * 4 + b \div 16, (b % 16) * 16 + c \div 4>>
                    ELSE <<a * 4 + b \div 16, (b % 16) * 16 + c \div 4,
                           (c % 4) * 64 + B64Value(s[4])>>
                         \o B64Decode(SubSeq(s, 5, Len(s)))

\* fromBase64 of a JavaScript value: throws on a value that is no string, on
\* a length that is no multiple of four and on a character outside the
\* alphabet (padding is allowed only as the last one or two characters).
fromBase64(x) ==
  IF x.t # "string" THEN Throw
  ELSE IF Len(x.v) % 4 # 0 THEN Throw
  ELSE IF \E k \in 1..(Len(x.v) - PadLen(x.v)) : ~IsB64Char(x.v[k]) THEN Throw
  ELSE Ok(B64Decode(x.v))

(***************************************************************************)
(* Constants of the program.                                               *)
(***************************************************************************)
IMAGE_GENERATION_HEIGHT_WIDTH_IN_PX == 320
PRESIGNED_URL_EXPIRES_IN_DAYS == 7
\* The seeds are below this number.
IMAGE_GENERATION_MAX_SEED == 1048576
\* cfgScale: 8.0 is the number 8.
IMAGE_GENERATION_PROMPT_ADHERENCE == 8
BUCKET_NAME == <<"case-consulting-mgmt-genbot-images">>
FALLBACK_GIF == <<"https:", "/", "/", "media.giphy.com", "/", "media", "/",
                  "l41JNsXAvFvoHvWJW", "/", "giphy.gif">>
SOMETHING_WENT_WRONG == <<"Something went wrong">>

\* The body of the Generators' catch branch.
FallbackBody == SOMETHING_WENT_WRONG \o <<" :( ">> \o FALLBACK_GIF

NoResponse == [statusCode |-> 0]
FallbackResponse == [statusCode |-> 200, body |-> FallbackBody]
AccessDenied == [statusCode |-> 403, body |-> <<"Access Denied">>]
\* The Retriever's catch branch: a redirect with no body.
FallbackRedirect ==
  [statusCode |-> 303, headers |-> [Location |-> FALLBACK_GIF]]

(***************************************************************************)
(* Inputs the environment hands to the handlers.                           *)
(***************************************************************************)
\* Bytes the images are made of.
SampleBytes == <<255, 0, 77, 130, 16>>
\* The images the model service generates: one of each length.
Images == {SubSeq(SampleBytes, 1, n) : n \in 1..MaxImageLen}
           \cup {<<SampleBytes[3]>>}

\* awsRequestId of the invocations.
RequestIds == {<<"req-a">>, <<"req-b">>}

\* The expected company identifier as deployed.
ExpectedCompany == <<"1">>
\* The Retriever's endpoint: scheme, "//" and host.
RetrieveOrigin == <<"https:", "/", "/", "genbot.lambda-url.on.aws">>

\* A request body as text: the text is represented by what JSON.parse makes
\* of it.
JsonText(tree) == [t |-> "string", parse |-> Ok(tree)]
MalformedText == [t |-> "string", parse |-> Throw]

\* JSON.parse(x): text is parsed, null is read as the text "null", anything
\* else (undefined) is a SyntaxError.
JSONparse(x) ==
  IF x.t = "string" THEN x.parse
  ELSE IF x.t = "null" THEN Ok(JNull)
  ELSE Throw

Prompt == <<"a", " ", "cat">>

\* The values the company identifier takes in requests.
CompanyIds ==
  {JStr(<<"1">>), JStr(<<"2">>), JStr(<<"0", "1">>), JNum(1), JNum(2),
   JBool(TRUE), JBool(FALSE), JNull, JArr(<<JNum(1)>>), JArr(<<>>)}

\* A well-formed chat request with the identifier id.
ChatRequest(id) ==
  JObj([command |-> JStr(Prompt), prompt |-> JStr(Prompt),
        creator |-> JObj([company |-> JObj([id |-> id])])])

RequestBodies ==
  {Undefined, JNull, MalformedText, JsonText(JNull), JsonText(JNum(5)),
   JsonText(JObj([command |-> JStr(Prompt), prompt |-> JStr(Prompt)])),
   JsonText(JObj([creator |-> JNull])),
   JsonText(JObj([creator |-> JObj([name |-> JStr(<<"x">>)])])),
   JsonText(JObj([creator |-> JObj([company |-> JNull])])),
   JsonText(JObj([creator |-> JObj([company |-> JObj([name |-> JStr(<<"x">>)])])])),
   JsonText(JObj([creator |-> JObj([company |-> JObj([id |-> JStr(<<"1">>)])])]))}
  \cup {JsonText(ChatRequest(id)) : id \in CompanyIds}

\* What bedrockClient.send resolves to (the decoded JSON of response.body) or
\* that it throws.
ErrorIndicator == JStr(<<"content", " ", "filtered">>)
ModelResponses ==
  {Throw,
   Ok(JObj([error |-> ErrorIndicator])),
   Ok(JObj([images |-> JArr(<<>>), error |-> ErrorIndicator])),
   Ok(JObj([images |-> JArr(<<JStr(toBase64(<<SampleBytes[1]>>))>>),
            error |-> ErrorIndicator])),
   Ok(JObj([images |-> JArr(<<JStr(toBase64(<<SampleBytes[1]>>))>>),
            error |-> JNull])),
   Ok(JObj([images |-> JArr(<<JStr(<<"Q", "Q", "=">>)>>)])),
   Ok(JObj([images |-> JArr(<<JStr(<<>>)>>)]))}
  \cup {Ok(JObj([images |-> JArr(<<JStr(toBase64(b))>>)])) : b \in Images}

\* How a PutObject and a getSignedUrl end.
PutOutcomes == {"ok", "S3ServiceException", "Error"}
SignOutcomes == {"ok", "Error"}
\* How a GetObject and the reading of its body end (NoSuchKey apart).
GetOutcomes == {"ok", "Error"}

\* Math.random(): a fraction num/den with 0 <= num < den.  The fractions are
\* multiples of 1/RandomResolution.
RandomResolution == 2097152
Randoms ==
  {[num |-> n, den |-> RandomResolution] :
     n \in {0, 3, RandomResolution - 1}}

RECURSIVE GCD(_, _)
GCD(a, b) == IF b = 0 THEN a ELSE GCD(b, a % b)

\* x * n for a fraction x and an integer n, in lowest terms.
Times(x, n) ==
  LET g == GCD(x.den, n) IN [num |-> x.num * (n \div g), den |-> x.den \div g]

\* Math.floor of a fraction that is not negative.
Floor(x) == x.num \div x.den

(***************************************************************************)
(* State.                                                                  *)
(***************************************************************************)
VARIABLES
  env,      \* process.env: companyId and retrieveApi
  bucket,   \* the objects of BUCKET_NAME: key -> bytes
  writer,   \* history: key -> awsRequestIds of the invocations that put it
  inv       \* the invocations: one record per execution environment

vars == <<env, bucket, writer, inv>>

\* No Math.random() is at hand, no payload is being sent.
NoRandom == [num |-> 0, den |-> 0]
NoPayload == [taskType |-> <<>>]

\* An execution environment that runs no invocation.
Idle ==
  [fn |-> "idle", pc |-> "idle", event |-> Undefined, requestId |-> <<>>,
   modelResponse |-> Throw, imageBuffer |-> <<>>, imageFileName |-> <<>>,
   calls |-> <<>>, results |-> <<>>, response |-> NoResponse,
   followed |-> <<>>, random |-> NoRandom, payload |-> NoPayload]

\* The state of an invocation of a storing handler when it is entered:
\* const requestId = context.awsRequestId.
Enter(fn, event, context) ==
  [Idle EXCEPT !.fn = fn, !.event = event, !.requestId = context.awsRequestId]

\* An execution environment that runs no invocation takes the next one.
CanInvoke(i) == inv[i].pc = "idle"

\* The invocation i ends with the response r.
Return(s, r) == [s EXCEPT !.pc = "done", !.response = r]

\* The invocation awaits the call c it has just issued.
Await(s, c) == [s EXCEPT !.pc = c, !.calls = @ \o <<c>>]

\* The awaited call of the invocation ends with result r.
Settle(s, r) == [s EXCEPT !.results = @ \o <<r>>]

\* The invocation sends the payload to the model and awaits the response;
\* random is what Math.random() has at hand for this invocation.
Send(s, payload, random) ==
  Await([s EXCEPT !.payload = payload, !.random = random], "model")

\* The model call of the invocation ends with resp: invokeModel's payload
\* is gone with it.
Receive(s, resp) ==
  [s EXCEPT !.modelResponse = resp, !.payload = NoPayload,
            !.random = NoRandom]

\* PutObject: the key holds the body, whatever it held.
PutObject(b, key, body) ==
  [k \in DOMAIN b \cup {key} |-> IF k = key THEN body ELSE b[k]]

\* The history of the puts: requestId has put the key.
Written(w, key, requestId) ==
  [k \in DOMAIN w \cup {key} |->
     IF k # key THEN w[k]
     ELSE IF key \in DOMAIN w THEN w[key] \cup {requestId} ELSE {requestId}]

(***************************************************************************)
(* The inline Generator (generate handler that returns the Base64 image).  *)
(***************************************************************************)
\* const body = JSON.parse(event.body); body.prompt; body.creator.company.id
\* : the prompt and the company identifier, or an exception.
inline_request(event) ==
  LET parsed == JSONparse(event.body) IN
  IF ~parsed.ok THEN Throw
  ELSE LET prompt == Get(parsed.v, "prompt") IN
  IF ~prompt.ok THEN Throw
  ELSE LET creator == Get(parsed.v, "creator").v
           company == Get(creator, "company") IN
  IF ~company.ok THEN Throw
  ELSE LET id == Get(company.v, "id") IN
  IF ~id.ok THEN Throw
  ELSE [ok |-> TRUE, prompt |-> prompt.v, companyId |-> id.v]

\* The payload invokeModel prepares for the prompt: the numbers are written
\* in it.
inline_payload(prompt) ==
  [taskType |-> <<"TEXT_IMAGE">>,
   textToImageParams |-> [text |-> prompt],
   imageGenerationConfig |->
     [numberOfImages |-> 1, height |-> 512, width |-> 512,
      quality |-> <<"standard">>, cfgScale |-> 8, seed |-> 42]]

\* The handler up to its first await: the request is read outside the try
\* block, the company identifier is compared, the model is called.  This
\* handler does not read its context and does not call Math.random().
inline_handler(i, event, context, random) ==
  /\ CanInvoke(i)
  /\ LET s == [Idle EXCEPT !.fn = "inline", !.event = event]
         req == inline_request(event)
     IN inv' = [inv EXCEPT ![i] =
          IF ~req.ok THEN [s EXCEPT !.pc = "thrown"]
          ELSE IF LooseEq(req.companyId, env.companyId)
            THEN Send(s, inline_payload(req.prompt), random)
          ELSE Return(s, AccessDenied)]
  /\ UNCHANGED <<env, bucket, writer>>

\* invokeModel after client.send: the first image of the response, decoded
\* to check it, unless the response carries an error.  Returns the Base64
\* text.
inline_invokeModel(resp) ==
  IF ~resp.ok THEN Throw
  ELSE LET image == First(Get(resp.v, "images").v) IN
  IF ~image.ok THEN Throw
  ELSE IF ~fromBase64(image.v).ok THEN Throw
  ELSE IF Truthy(Get(resp.v, "error").v) THEN Throw
  ELSE Ok(image.v.v)

\* The handler resumes when the model call ends.
inline_handler_resume(i, resp) ==
  /\ inv[i].fn = "inline" /\ inv[i].pc = "model"
  /\ LET base64Image == inline_invokeModel(resp)
         s == Receive(inv[i], resp)
     IN inv' = [inv EXCEPT ![i] =
          IF base64Image.ok
            THEN Return(Settle(s, "ok"),
                        [statusCode |-> 200, body |-> base64Image.v])
            ELSE Return(Settle(s, "failed"), FallbackResponse)]
  /\ UNCHANGED <<env, bucket, writer>>

(***************************************************************************)
(* The Generators that store the image.                                    *)
(***************************************************************************)
\* const body = JSON.parse(event.body); body.command;
\* body.creator.company.id (the same lines in both handlers).
handler_request(event) ==
  LET parsed == JSONparse(event.body) IN
  IF ~parsed.ok THEN Throw
  ELSE LET command == Get(parsed.v, "command") IN
  IF ~command.ok THEN Throw
  ELSE LET creator == Get(parsed.v, "creator").v
           company == Get(creator, "company") IN
  IF ~company.ok THEN Throw
  ELSE LET id == Get(company.v, "id") IN
  IF ~id.ok THEN Throw
  ELSE [ok |-> TRUE, prompt |-> command.v, companyId |-> id.v]

\* Faulty variant of Seed: the seed may be IMAGE_GENERATION_MAX_SEED itself.
Seed_rounded_up(random) ==
  Floor(Times(random, IMAGE_GENERATION_MAX_SEED)) + 1

\* const seed = Math.floor(Math.random() * IMAGE_GENERATION_MAX_SEED)
Seed(random) == Floor(Times(random, IMAGE_GENERATION_MAX_SEED))

\* The payload invokeModel prepares for the prompt (the same lines in both
\* files).
Payload(prompt, random) ==
  [taskType |-> <<"TEXT_IMAGE">>,
   textToImageParams |-> [text |-> prompt],
   imageGenerationConfig |->
     [numberOfImages |-> 1, height |-> IMAGE_GENERATION_HEIGHT_WIDTH_IN_PX,
      width |-> IMAGE_GENERATION_HEIGHT_WIDTH_IN_PX,
      quality |-> <<"standard">>,
      cfgScale |-> IMAGE_GENERATION_PROMPT_ADHERENCE,
      seed |-> Seed(random)]]

\* Faulty variant of invokeModel: the error of the response is not looked at.
invokeModel_ignoring_error(resp) ==
  IF ~resp.ok THEN Throw
  ELSE LET image == First(Get(resp.v, "images").v) IN
  IF ~image.ok THEN Throw
  ELSE fromBase64(image.v)

\* invokeModel after bedrockClient.send: the bytes of the first image unless
\* the response carries an error (the same function in both files).
invokeModel(resp) ==
  IF ~resp.ok THEN Throw
  ELSE LET image == First(Get(resp.v, "images").v) IN
  IF ~image.ok THEN Throw
  ELSE LET imageBuffer == fromBase64(image.v) IN
  IF ~imageBuffer.ok THEN Throw
  ELSE IF Truthy(Get(resp.v, "error").v) THEN Throw
  ELSE imageBuffer

\* Faulty variant of ImageFileName: one name for every invocation.
ImageFileName_fixed(requestId) == <<"image", ".png">>

\* const imageFileName = `${requestId}.png`
ImageFileName(requestId) == requestId \o <<".png">>

\* The URL getSignedUrl makes for a GetObject of the key.
SignedUrl(key, expiresIn) ==
  <<"https:", "/", "/">> \o BUCKET_NAME \o <<".s3.amazonaws.com", "/">>
    \o key \o <<"?X-Amz-Expires=">> \o NumToStr(expiresIn)

\* The <img> element of the signed-URL Generator.
ImgHtml(url, command) ==
  <<"<img src=\"">> \o url \o <<"\" alt=\"">> \o ToText(command)
    \o <<"\" width=\"">> \o NumToStr(IMAGE_GENERATION_HEIGHT_WIDTH_IN_PX)
    \o <<"\" height=\"">> \o NumToStr(IMAGE_GENERATION_HEIGHT_WIDTH_IN_PX)
    \o <<"\"/>">>

\* Faulty variant of ResponseUrl: the file name is left out.
ResponseUrl_without_name(retrieveEndpoint, imageFileName) ==
  ToText(retrieveEndpoint) \o <<"/">>

\* `${retrieveEndpoint}/${imageFileName}`
ResponseUrl(retrieveEndpoint, imageFileName) ==
  ToText(retrieveEndpoint) \o <<"/">> \o imageFileName

\* Faulty variant of signed_handler: the company identifier is not compared.
signed_handler_unchecked(i, event, context, random) ==
  /\ CanInvoke(i)
  /\ LET s == Enter("signed", event, context)
         req == handler_request(event)
     IN inv' = [inv EXCEPT ![i] =
          IF ~req.ok THEN [s EXCEPT !.pc = "thrown"]
          ELSE Send(s, Payload(req.prompt, random), random)]
  /\ UNCHANGED <<env, bucket, writer>>

\* The signed-URL handler up to its first await.
signed_handler(i, event, context, random) ==
  /\ CanInvoke(i)
  /\ LET s == Enter("signed", event, context)
         req == handler_request(event)
     IN inv' = [inv EXCEPT ![i] =
          IF ~req.ok THEN [s EXCEPT !.pc = "thrown"]
          ELSE IF LooseEq(req.companyId, env.companyId)
            THEN Send(s, Payload(req.prompt, random), random)
          ELSE Return(s, AccessDenied)]
  /\ UNCHANGED <<env, bucket, writer>>

\* The model call ends: on success saveImageToBucket sends the PutObject.
signed_handler_resume(i, resp) ==
  /\ inv[i].fn = "signed" /\ inv[i].pc = "model"
  /\ LET imageBuffer == invokeModel(resp)
         s == Receive(inv[i], resp)
     IN inv' = [inv EXCEPT ![i] =
          IF imageBuffer.ok
            THEN Await([Settle(s, "ok") EXCEPT
                          !.imageBuffer = imageBuffer.v,
                          !.imageFileName = ImageFileName(s.requestId)],
                       "put")
            ELSE Return(Settle(s, "failed"), FallbackResponse)]
  /\ UNCHANGED <<env, bucket, writer>>

\* Faulty variant of signed_saveImageToBucket_put: a failed PutObject is sent again.
signed_saveImageToBucket_put_retry(i, outcome) ==
  /\ inv[i].fn = "signed" /\ inv[i].pc = "put"
  /\ IF outcome = "ok"
       THEN /\ bucket' = PutObject(bucket, inv[i].imageFileName,
                                   inv[i].imageBuffer)
            /\ writer' = Written(writer, inv[i].imageFileName,
                                 inv[i].requestId)
            /\ inv' = [inv EXCEPT ![i] = Await(Settle(@, "ok"), "sign")]
       ELSE /\ UNCHANGED <<bucket, writer>>
            /\ inv' = [inv EXCEPT ![i] =
                         IF Len(@.calls) < 3
                           THEN Await(Settle(@, "failed"), "put")
                           ELSE Return(Settle(@, "failed"), FallbackResponse)]
  /\ UNCHANGED env

\* saveImageToBucket: the PutObject ends; on success the URL is signed.
signed_saveImageToBucket_put(i, outcome) ==
  /\ inv[i].fn = "signed" /\ inv[i].pc = "put"
  /\ IF outcome = "ok"
       THEN /\ bucket' = PutObject(bucket, inv[i].imageFileName,
                                   inv[i].imageBuffer)
            /\ writer' = Written(writer, inv[i].imageFileName,
                                 inv[i].requestId)
            /\ inv' = [inv EXCEPT ![i] = Await(Settle(@, "ok"), "sign")]
       ELSE /\ UNCHANGED <<bucket, writer>>
            /\ inv' = [inv EXCEPT ![i] =
                         Return(Settle(@, "failed"), FallbackResponse)]
  /\ UNCHANGED env

\* Faulty variant of signed_saveImageToBucket_sign: when getSignedUrl fails
\* the object is deleted again.
signed_saveImageToBucket_sign_cleanup(i, outcome) ==
  /\ inv[i].fn = "signed" /\ inv[i].pc = "sign"
  /\ LET req == handler_request(inv[i].event)
         expiresInSeconds == PRESIGNED_URL_EXPIRES_IN_DAYS * 24 * 60 * 60
         url == SignedUrl(inv[i].imageFileName, expiresInSeconds)
     IN IF outcome = "ok"
          THEN /\ inv' = [inv EXCEPT ![i] =
                    Return(Settle(@, "ok"),
                           [statusCode |-> 200,
                            body |-> ImgHtml(url, req.prompt)])]
               /\ bucket' = bucket
          ELSE /\ inv' = [inv EXCEPT ![i] =
                    Return(Settle(@, "failed"), FallbackResponse)]
               /\ bucket' = [k \in DOMAIN bucket \ {inv[i].imageFileName} |->
                               bucket[k]]
  /\ UNCHANGED <<env, writer>>

\* saveImageToBucket: getSignedUrl ends; the handler answers.
signed_saveImageToBucket_sign(i, outcome) ==
  /\ inv[i].fn = "signed" /\ inv[i].pc = "sign"
  /\ LET req == handler_request(inv[i].event)
         expiresInSeconds == PRESIGNED_URL_EXPIRES_IN_DAYS * 24 * 60 * 60
         url == SignedUrl(inv[i].imageFileName, expiresInSeconds)
     IN inv' = [inv EXCEPT ![i] =
          IF outcome = "ok"
            THEN Return(Settle(@, "ok"),
                        [statusCode |-> 200, body |-> ImgHtml(url, req.prompt)])
            ELSE Return(Settle(@, "failed"), FallbackResponse)]
  /\ UNCHANGED <<env, bucket, writer>>

\* The retrieval-URL handler up to its first await.
retrieval_handler(i, event, context, random) ==
  /\ CanInvoke(i)
  /\ LET s == Enter("retrieval", event, context)
         req == handler_request(event)
     IN inv' = [inv EXCEPT ![i] =
          IF ~req.ok THEN [s EXCEPT !.pc = "thrown"]
          ELSE IF LooseEq(req.companyId, env.companyId)
            THEN Send(s, Payload(req.prompt, random), random)
          ELSE Return(s, AccessDenied)]
  /\ UNCHANGED <<env, bucket, writer>>

\* The model call ends: on success saveImageToBucket sends the PutObject.
retrieval_handler_resume(i, resp) ==
  /\ inv[i].fn = "retrieval" /\ inv[i].pc = "model"
  /\ LET imageBuffer == invokeModel(resp)
         s == Receive(inv[i], resp)
     IN inv' = [inv EXCEPT ![i] =
          IF imageBuffer.ok
            THEN Await([Settle(s, "ok") EXCEPT
                          !.imageBuffer = imageBuffer.v,
                          !.imageFileName = ImageFileName(s.requestId)],
                       "put")
            ELSE Return(Settle(s, "failed"), FallbackResponse)]
  /\ UNCHANGED <<env, bucket, writer>>

\* saveImageToBucket: the PutObject ends; the handler answers with the URL
\* of the Retriever.
retrieval_saveImageToBucket(i, outcome) ==
  /\ inv[i].fn = "retrieval" /\ inv[i].pc = "put"
  /\ IF outcome = "ok"
       THEN /\ bucket' = PutObject(bucket, inv[i].imageFileName,
                                   inv[i].imageBuffer)
            /\ writer' = Written(writer, inv[i].imageFileName,
                                 inv[i].requestId)
            /\ inv' = [inv EXCEPT ![i] =
                 Return(Settle(@, "ok"),
                        [statusCode |-> 200,
                         body |-> ResponseUrl(env.retrieveApi,
                                              inv[i].imageFileName)])]
       ELSE /\ UNCHANGED <<bucket, writer>>
            /\ inv' = [inv EXCEPT ![i] =
                         Return(Settle(@, "failed"), FallbackResponse)]
  /\ UNCHANGED env

(***************************************************************************)
(* The Retriever.                                                          *)
(***************************************************************************)
\* A Lambda Function URL request for the path.
RetrieveEvent(path) ==
  JObj([requestContext |-> JObj([http |-> JObj([path |-> path])])])

\* Keys the bucket may hold before the first invocation.
InitKeys == {<<"old", ".png">>, <<"/", "req-a", ".png">>}
OldBytes == <<SampleBytes[2], SampleBytes[1]>>

RequestPaths ==
  {<<"/">> \o k : k \in InitKeys \cup {ImageFileName(r) : r \in RequestIds}}
    \cup {<<"/">>, <<"old", ".png">>, <<"/", "/", "old", ".png">>}

RetrieveEvents ==
  {Undefined, JNull, JStr(<<"/">>),
   JObj([rawPath |-> JStr(<<"/">>)]),
   JObj([requestContext |-> JNull]),
   JObj([requestContext |-> JObj([stage |-> JStr(<<"$default">>)])]),
   JObj([requestContext |-> JObj([http |-> JNull])]),
   RetrieveEvent(Undefined), RetrieveEvent(JNum(5)), RetrieveEvent(JNull),
   RetrieveEvent(JBool(TRUE)), RetrieveEvent(JArr(<<JStr(<<"/">>)>>)),
   RetrieveEvent(JObj([replace |-> JStr(<<"/">>)]))}
  \cup {RetrieveEvent(JStr(p)) : p \in RequestPaths}

\* event.requestContext.http.path
RequestPath(event) ==
  LET requestContext == Get(event, "requestContext") IN
  IF ~requestContext.ok THEN Throw
  ELSE LET http == Get(requestContext.v, "http") IN
  IF ~http.ok THEN Throw ELSE Get(http.v, "path")

RECURSIVE DropSlashes(_)
DropSlashes(text) ==
  IF text # <<>> /\ text[1] = "/" THEN DropSlashes(Tail(text)) ELSE text

\* Faulty variant of StripLeadingSlash: every leading "/" is removed.
StripLeadingSlash_all(requestPath) ==
  IF requestPath.t # "string" THEN Throw ELSE Ok(DropSlashes(requestPath.v))

\* requestPath.replace(/^\//, ''): one leading "/" is removed; a value that
\* is no string has no replace method.
StripLeadingSlash(requestPath) ==
  IF requestPath.t # "string" THEN Throw
  ELSE IF requestPath.v # <<>> /\ requestPath.v[1] = "/"
    THEN Ok(Tail(requestPath.v))
  ELSE Ok(requestPath.v)

\* Faulty variant of retrieve_enter: the path is read before the try block.
retrieve_enter_unguarded(i, event, followed) ==
  /\ LET s == [Idle EXCEPT !.fn = "retrieve", !.event = event,
                           !.followed = followed]
         requestPath == RequestPath(event)
         imageFileName ==
           IF requestPath.ok THEN StripLeadingSlash(requestPath.v) ELSE Throw
     IN inv' = [inv EXCEPT ![i] =
          IF imageFileName.ok
            THEN Await([s EXCEPT !.imageFileName = imageFileName.v], "get")
            ELSE [s EXCEPT !.pc = "thrown"]]
  /\ UNCHANGED <<env, bucket, writer>>

\* The Retriever up to its first await; followed is the stored image whose
\* URL the caller dereferenced (<<>> when the path comes from elsewhere).
retrieve_enter(i, event, followed) ==
  /\ LET s == [Idle EXCEPT !.fn = "retrieve", !.event = event,
                           !.followed = followed]
         requestPath == RequestPath(event)
         imageFileName ==
           IF requestPath.ok THEN StripLeadingSlash(requestPath.v) ELSE Throw
     IN inv' = [inv EXCEPT ![i] =
          IF imageFileName.ok
            THEN Await([s EXCEPT !.imageFileName = imageFileName.v], "get")
            ELSE Return(s, FallbackRedirect)]
  /\ UNCHANGED <<env, bucket, writer>>

\* The handler of retrieve.js invoked with an event of the environment.
retrieve_handler(i, event, context) ==
  /\ CanInvoke(i)
  /\ retrieve_enter(i, event, <<>>)

\* Faulty variant of getImage_send: a missing object is answered with 404.
getImage_send_404(i, outcome) ==
  /\ inv[i].fn = "retrieve" /\ inv[i].pc = "get"
  /\ inv' = [inv EXCEPT ![i] =
       IF outcome = "ok" /\ inv[i].imageFileName \in DOMAIN bucket
         THEN [Settle(@, "ok") EXCEPT
                 !.pc = "read", !.imageBuffer = bucket[inv[i].imageFileName]]
       ELSE IF outcome = "ok"
         THEN Return(Settle(@, "NoSuchKey"),
                     [statusCode |-> 404, body |-> <<"Not Found">>])
       ELSE Return(Settle(@, "failed"), FallbackRedirect)]
  /\ UNCHANGED <<env, bucket, writer>>

\* getImage: the GetObject ends, with NoSuchKey when the bucket does not
\* hold the key, with another error, or with the object whose body is
\* read next.
getImage_send(i, outcome) ==
  /\ inv[i].fn = "retrieve" /\ inv[i].pc = "get"
  /\ inv' = [inv EXCEPT ![i] =
       IF outcome = "ok" /\ inv[i].imageFileName \in DOMAIN bucket
         THEN [Settle(@, "ok") EXCEPT
                 !.pc = "read", !.imageBuffer = bucket[inv[i].imageFileName]]
       ELSE IF outcome = "ok"
         THEN Return(Settle(@, "NoSuchKey"), FallbackRedirect)
       ELSE Return(Settle(@, "failed"), FallbackRedirect)]
  /\ UNCHANGED <<env, bucket, writer>>

\* getImage: response.Body.transformToByteArray() ends; the handler answers.
getImage_read(i, outcome) ==
  /\ inv[i].fn = "retrieve" /\ inv[i].pc = "read"
  /\ inv' = [inv EXCEPT ![i] =
       IF outcome = "ok"
         THEN Return(@, [headers |-> [content_type |-> <<"image/jpg">>],
                         statusCode |-> 200,
                         body |-> toBase64(inv[i].imageBuffer),
                         isBase64Encoded |-> TRUE])
         ELSE Return([@ EXCEPT !.results = <<"failed">>], FallbackRedirect)]
  /\ UNCHANGED <<env, bucket, writer>>

\* The path of a URL: what follows the scheme, "//" and the host.
UrlPath(url) ==
  LET slashes == {k \in 4..Len(url) : url[k] = "/"} IN
  IF slashes = {} THEN <<"/">>
  ELSE SubSeq(url, CHOOSE k \in slashes : \A m \in slashes : k <= m, Len(url))

\* The Generator's answer of invocation j is a URL of the Retriever.
AnsweredUrl(j) ==
  /\ inv[j].fn = "retrieval" /\ inv[j].pc = "done"
  /\ inv[j].response.statusCode = 200
  /\ inv[j].response.body # FallbackBody
  /\ env.retrieveApi.t = "string"

\* The caller dereferences the URL invocation j answered with: the
\* Retriever is invoked with the path of that URL.
follow(i, j) ==
  /\ AnsweredUrl(j)
  /\ i = j \/ CanInvoke(i)
  /\ retrieve_enter(i, RetrieveEvent(JStr(UrlPath(inv[j].response.body))),
                    <<[key |-> inv[j].imageFileName,
                       bytes |-> inv[j].imageBuffer]>>)

\* return response, or the exception leaves the handler: the invocation
\* has ended and nothing of it stays in the execution environment.
release(i) ==
  /\ inv[i].pc \in {"done", "thrown"}
  /\ inv' = [inv EXCEPT ![i] = Idle]
  /\ UNCHANGED <<env, bucket, writer>>

(***************************************************************************)
(* Specifications.                                                         *)
(***************************************************************************)
Contexts == {[awsRequestId |-> r] : r \in RequestIds}
Events == {[body |-> b] : b \in RequestBodies}

\* process.env as deployed, and with a variable left out.
Envs ==
  {[companyId |-> c, retrieveApi |-> r] :
     c \in {JStr(ExpectedCompany), Undefined},
     r \in {JStr(RetrieveOrigin), JStr(RetrieveOrigin \o <<"/">>), Undefined}}

InitialBuckets ==
  {<<>>, [k \in InitKeys |-> OldBytes]}

\* One execution environment: the invocations follow one another.
Init ==
  /\ env \in Envs
  /\ bucket \in InitialBuckets
  /\ writer = [k \in DOMAIN bucket |-> {}]
  /\ inv = [i \in 1..1 |-> Idle]

Next ==
  \/ \E i \in DOMAIN inv, event \in Events, context \in Contexts,
       random \in Randoms :
       inline_handler(i, event, context, random)
  \/ \E i \in DOMAIN inv, resp \in ModelResponses :
       inline_handler_resume(i, resp)
  \/ \E i \in DOMAIN inv, event \in Events, context \in Contexts,
       random \in Randoms :
       signed_handler(i, event, context, random)
  \/ \E i \in DOMAIN inv, resp \in ModelResponses :
       signed_handler_resume(i, resp)
  \/ \E i \in DOMAIN inv, outcome \in PutOutcomes :
       signed_saveImageToBucket_put(i, outcome)
  \/ \E i \in DOMAIN inv, outcome \in SignOutcomes :
       signed_saveImageToBucket_sign(i, outcome)
  \/ \E i \in DOMAIN inv, event \in Events, context \in Contexts,
       random \in Randoms :
       retrieval_handler(i, event, context, random)
  \/ \E i \in DOMAIN inv, resp \in ModelResponses :
       retrieval_handler_resume(i, resp)
  \/ \E i \in DOMAIN inv, outcome \in PutOutcomes :
       retrieval_saveImageToBucket(i, outcome)
  \/ \E i \in DOMAIN inv, event \in RetrieveEvents, context \in Contexts :
       retrieve_handler(i, event, context)
  \/ \E i \in DOMAIN inv, outcome \in GetOutcomes : getImage_send(i, outcome)
  \/ \E i \in DOMAIN inv, outcome \in GetOutcomes : getImage_read(i, outcome)
  \/ \E i, j \in DOMAIN inv : follow(i, j)
  \/ \E i \in DOMAIN inv : release(i)

Spec == Init /\ [][Next]_vars

\* NumInv execution environments run invocations concurrently, as deployed:
\* the requests are well-formed chat requests of the expected company and of
\* another one.
ConcEvents ==
  {[body |-> JsonText(ChatRequest(id))] : id \in {JNum(1), JNum(2)}}
ConcModelResponses ==
  {Throw}
  \cup {Ok(JObj([images |-> JArr(<<JStr(toBase64(<<SampleBytes[n]>>))>>)])) :
          n \in 1..2}
\* Math.random() at its least and at its greatest.
ConcRandoms == {r \in Randoms : r.num \in {0, r.den - 1}}
ConcRetrieveEvents ==
  {RetrieveEvent(JStr(<<"/">> \o ImageFileName(<<"req-a">>)))}

InitConc ==
  /\ env = [companyId |-> JStr(ExpectedCompany),
            retrieveApi |-> JStr(RetrieveOrigin \o <<"/">>)]
  /\ bucket = <<>>
  /\ writer = <<>>
  /\ inv = [i \in 1..NumInv |-> Idle]

NextConc ==
  \/ \E i \in DOMAIN inv, event \in ConcEvents, context \in Contexts,
       random \in ConcRandoms :
       inline_handler(i, event, context, random)
  \/ \E i \in DOMAIN inv, resp \in ConcModelResponses :
       inline_handler_resume(i, resp)
  \/ \E i \in DOMAIN inv, event \in ConcEvents, context \in Contexts,
       random \in ConcRandoms :
       signed_handler(i, event, context, random)
  \/ \E i \in DOMAIN inv, resp \in ConcModelResponses :
       signed_handler_resume(i, resp)
  \/ \E i \in DOMAIN inv, outcome \in SignOutcomes :
       signed_saveImageToBucket_put(i, outcome)
  \/ \E i \in DOMAIN inv, outcome \in SignOutcomes :
       signed_saveImageToBucket_sign(i, outcome)
  \/ \E i \in DOMAIN inv, event \in ConcEvents, context \in Contexts,
       random \in ConcRandoms :
       retrieval_handler(i, event, context, random)
  \/ \E i \in DOMAIN inv, resp \in ConcModelResponses :
       retrieval_handler_resume(i, resp)
  \/ \E i \in DOMAIN inv, outcome \in SignOutcomes :
       retrieval_saveImageToBucket(i, outcome)
  \/ \E i \in DOMAIN inv, event \in ConcRetrieveEvents, context \in Contexts :
       retrieve_handler(i, event, context)
  \/ \E i \in DOMAIN inv : getImage_send(i, "ok")
  \/ \E i \in DOMAIN inv : getImage_read(i, "ok")
  \/ \E i \in DOMAIN inv : release(i)

SpecConc == InitConc /\ [][NextConc]_vars

(***************************************************************************)
(* Vocabulary of the properties.                                           *)
(***************************************************************************)
Generators == {"inline", "signed", "retrieval"}

\* What the handler of the invocation reads from its request.
Request(s) ==
  IF s.fn = "inline" THEN inline_request(s.event) ELSE handler_request(s.event)

\* The request carries a company identifier the handler accepts.
Authorized(s) ==
  Request(s).ok /\ LooseEq(Request(s).companyId, env.companyId)

\* The text holds the part as a contiguous piece.
Contains(text, part) ==
  \E k \in 0..(Len(text) - Len(part)) :
    SubSeq(text, k + 1, k + Len(part)) = part

EndsWith(text, part) ==
  /\ Len(part) <= Len(text)
  /\ SubSeq(text, Len(text) - Len(part) + 1, Len(text)) = part

StartsWith(text, part) ==
  /\ Len(part) <= Len(text)
  /\ SubSeq(text, 1, Len(part)) = part

\* The model service answered with an error indicator.
HasErrorIndicator(resp) == resp.ok /\ Truthy(Get(resp.v, "error").v)

HasImage(resp) ==
  /\ resp.ok
  /\ First(Get(resp.v, "images").v).ok
  /\ First(Get(resp.v, "images").v).v.t = "string"

\* The model service answered with valid image bytes and no error.
ValidImage(resp) ==
  /\ HasImage(resp)
  /\ ~HasErrorIndicator(resp)
  /\ fromBase64(First(Get(resp.v, "images").v).v).ok
  /\ fromBase64(First(Get(resp.v, "images").v).v).v # <<>>

(***************************************************************************)
(* C1.  A Generator request whose company identifier does not match the    *)
(* expected one (the handler's comparison fails) is answered with exactly  *)
(* statusCode 403 and body "Access Denied", and the invocation has issued  *)
(* no call: no model call, no put, no sign.                                *)
(***************************************************************************)
C1_Mismatch(s) ==
  /\ s.fn \in Generators
  /\ Request(s).ok
  /\ ~LooseEq(Request(s).companyId, env.companyId)

C1_AccessDenied ==
  \A i \in DOMAIN inv :
    C1_Mismatch(inv[i]) =>
      /\ inv[i].pc = "done"
      /\ inv[i].response = [statusCode |-> 403, body |-> <<"Access Denied">>]
      /\ inv[i].calls = <<>>
      /\ inv[i].results = <<>>

\* A signed-URL Generator has denied a request of the company "2".
C1_Witness ==
  \E i \in DOMAIN inv :
    /\ inv[i].fn = "signed"
    /\ C1_Mismatch(inv[i])
    /\ Request(inv[i]).companyId = JStr(<<"2">>)
    /\ env.companyId = JStr(ExpectedCompany)
    /\ inv[i].response.statusCode = 403

(***************************************************************************)
(* C2.  An authorized Generator invocation in which the model call threw,  *)
(* the model answered with an error indicator (with or without images),    *)
(* the storage write failed or the signing failed never ends with an       *)
(* exception: it returns statusCode 200 and the one fallback body, which   *)
(* holds "Something went wrong" and the link of the fallback image.        *)
(***************************************************************************)
\* The failure the invocation has met.
C2_ModelFailed(s) ==
  /\ Len(s.results) >= 1
  /\ ~s.modelResponse.ok \/ HasErrorIndicator(s.modelResponse)

C2_StorageFailed(s) ==
  \E k \in 2..Len(s.results) : s.results[k] # "ok"

C2_Fallback ==
  \A i \in DOMAIN inv :
    (inv[i].fn \in Generators /\ Authorized(inv[i])) =>
      /\ inv[i].pc # "thrown"
      /\ (C2_ModelFailed(inv[i]) \/ C2_StorageFailed(inv[i])) =>
           /\ inv[i].pc = "done"
           /\ inv[i].response.statusCode = 200
           /\ inv[i].response.body = FallbackBody
           /\ Contains(inv[i].response.body, <<"Something went wrong">>)
           /\ Contains(inv[i].response.body, FALLBACK_GIF)

\* The model answered with an image and an error indicator, and the
\* handler answered with the fallback.
C2_Witness ==
  \E i \in DOMAIN inv :
    /\ inv[i].fn \in {"signed", "retrieval"}
    /\ Authorized(inv[i])
    /\ HasErrorIndicator(inv[i].modelResponse)
    /\ HasImage(inv[i].modelResponse)
    /\ inv[i].pc = "done"
    /\ inv[i].response = FallbackResponse

(***************************************************************************)
(* C3 (as claimed).  A Generator request whose body is missing, is no      *)
(* JSON, or lacks the company identifier is answered with the fallback     *)
(* response (statusCode 200, "Something went wrong"); the handler does not *)
(* end with an uncaught exception.                                         *)
(***************************************************************************)
C3_Malformed(s) ==
  /\ s.fn \in Generators
  /\ ~Request(s).ok \/ Request(s).companyId.t = "undefined"

C3_MalformedGetsFallback ==
  \A i \in DOMAIN inv :
    C3_Malformed(inv[i]) =>
      /\ inv[i].pc # "thrown"
      /\ inv[i].pc = "done" =>
           /\ inv[i].response.statusCode = 200
           /\ Contains(inv[i].response.body, <<"Something went wrong">>)

(***************************************************************************)
(* C4.  An authorized Generator invocation whose model call returned valid *)
(* image bytes without an error indicator and whose storage calls          *)
(* succeeded returns statusCode 200 and a body that is not empty and not   *)
(* the fallback: the Base64 text of the image (inline), an <img> element   *)
(* whose src is the signed URL of the stored key (signed-URL), the         *)
(* retrieval endpoint followed by "/" and the stored file name             *)
(* (retrieval-URL).                                                        *)
(***************************************************************************)
C4_Succeeded(s) ==
  /\ s.fn \in Generators
  /\ s.pc = "done"
  /\ Authorized(s)
  /\ Len(s.results) >= 1
  /\ ValidImage(s.modelResponse)
  /\ \A k \in 1..Len(s.results) : s.results[k] = "ok"

C4_ImageBytes(s) == fromBase64(First(Get(s.modelResponse.v, "images").v).v).v

C4_Success ==
  \A i \in DOMAIN inv :
    C4_Succeeded(inv[i]) =>
      LET s == inv[i]
          body == s.response.body
      IN /\ s.response.statusCode = 200
         /\ body # <<>>
         /\ body # FallbackBody
         /\ ~Contains(body, <<"Something went wrong">>)
         /\ s.fn = "inline" =>
              fromBase64(JStr(body)) = Ok(C4_ImageBytes(s))
         /\ s.fn = "signed" =>
              /\ StartsWith(body, <<"<img src=\"">>
                   \o SignedUrl(s.requestId \o <<".png">>, 604800)
                   \o <<"\" alt=\"">>)
              /\ EndsWith(body, <<"\"/>">>)
         /\ s.fn = "retrieval" =>
              /\ StartsWith(body, ToText(env.retrieveApi) \o <<"/">>)
              /\ EndsWith(body, s.requestId \o <<".png">>)
              /\ Len(body) = Len(ToText(env.retrieveApi)) + 1
                               + Len(s.requestId) + 1

\* A retrieval-URL Generator has stored a three-byte image and answered.
C4_Witness ==
  \E i \in DOMAIN inv :
    /\ inv[i].fn = "retrieval"
    /\ C4_Succeeded(inv[i])
    /\ Len(inv[i].imageBuffer) = 3
    /\ inv[i].response.statusCode = 200

(***************************************************************************)
(* C5.  A Retriever invocation whose storage get failed, with "not found"  *)
(* or with any other error, or whose body could not be read, returns       *)
(* statusCode 303 with the header Location set to the fallback GIF and no  *)
(* body: the same response in every case.                                  *)
(***************************************************************************)
C5_GetFailed(s) ==
  /\ s.fn = "retrieve"
  /\ s.calls = <<"get">>
  /\ s.results \in {<<"NoSuchKey">>, <<"failed">>}

C5_Redirect ==
  \A i \in DOMAIN inv :
    C5_GetFailed(inv[i]) =>
      /\ inv[i].pc = "done"
      /\ inv[i].response.statusCode = 303
      /\ DOMAIN inv[i].response = {"statusCode", "headers"}
      /\ DOMAIN inv[i].response.headers = {"Location"}
      /\ inv[i].response.headers.Location = FALLBACK_GIF

\* The bucket did not hold the key: the Retriever redirected.
C5_Witness ==
  \E i \in DOMAIN inv :
    /\ C5_GetFailed(inv[i])
    /\ inv[i].results = <<"NoSuchKey">>
    /\ inv[i].imageFileName \notin DOMAIN bucket
    /\ inv[i].response.statusCode = 303

(***************************************************************************)
(* C6.  When the bucket holds the bytes B under the key K and the          *)
(* Retriever is invoked with the path "/" followed by K, it gets exactly   *)
(* the key K and, unless the storage service fails, returns statusCode     *)
(* 200, isBase64Encoded true, the content-type header "image/jpg" and a    *)
(* body that Base64-decodes to exactly B.                                  *)
(***************************************************************************)
\* The Retriever invocation was asked for the path "/" followed by key.
C6_AskedFor(s, key) ==
  /\ s.fn = "retrieve"
  /\ RequestPath(s.event).ok
  /\ RequestPath(s.event).v = JStr(<<"/">> \o key)

C6_Retrieve ==
  \A i \in DOMAIN inv : \A K \in DOMAIN bucket :
    C6_AskedFor(inv[i], K) =>
      /\ inv[i].calls = <<"get">>
      /\ inv[i].imageFileName = K
      /\ (inv[i].pc = "done" /\ inv[i].results # <<"failed">>) =>
           /\ inv[i].response.statusCode = 200
           /\ inv[i].response.isBase64Encoded = TRUE
           /\ inv[i].response.headers = [content_type |-> <<"image/jpg">>]
           /\ fromBase64(JStr(inv[i].response.body)) = Ok(bucket[K])

\* The Retriever has returned the object stored under a key that starts
\* with "/" itself.
C6_Witness ==
  \E i \in DOMAIN inv :
    /\ <<"/", "req-a", ".png">> \in DOMAIN bucket
    /\ C6_AskedFor(inv[i], <<"/", "req-a", ".png">>)
    /\ inv[i].pc = "done"
    /\ inv[i].response.statusCode = 200
    /\ fromBase64(JStr(inv[i].response.body)) = Ok(OldBytes)

(***************************************************************************)
(* C7 (as claimed).  Round trip: when the URL a retrieval-URL Generator    *)
(* answered with is dereferenced, the Retriever derives from the path      *)
(* exactly the key the Generator wrote and, unless the storage service     *)
(* fails, returns 200 with a body that decodes to the stored bytes; for    *)
(* every configured base endpoint, also one that ends with "/".            *)
(***************************************************************************)
C7_RoundTrip ==
  \A i \in DOMAIN inv :
    (inv[i].fn = "retrieve" /\ inv[i].followed # <<>>) =>
      /\ inv[i].imageFileName = inv[i].followed[1].key
      /\ (inv[i].pc = "done" /\ inv[i].results # <<"failed">>) =>
           /\ inv[i].response.statusCode = 200
           /\ fromBase64(JStr(inv[i].response.body))
                = Ok(inv[i].followed[1].bytes)

(***************************************************************************)
(* C8.  The key a storing Generator writes is exactly "<requestId>.png"    *)
(* of its invocation; invocations with distinct request identifiers write  *)
(* distinct keys, and no invocation overwrites an object that an           *)
(* invocation with another request identifier wrote.                       *)
(***************************************************************************)
\* The invocation has sent its PutObject.
C8_Wrote(s) == s.fn \in {"signed", "retrieval"} /\ Len(s.calls) >= 2

C8_UniqueKeys ==
  /\ \A i \in DOMAIN inv :
       C8_Wrote(inv[i]) =>
         inv[i].imageFileName = inv[i].requestId \o <<".png">>
  /\ \A i, j \in DOMAIN inv :
       (C8_Wrote(inv[i]) /\ C8_Wrote(inv[j])
          /\ inv[i].requestId # inv[j].requestId) =>
         inv[i].imageFileName # inv[j].imageFileName
  \* every object was put by the invocations of one request identifier only
  /\ \A k \in DOMAIN bucket :
       \E r \in RequestIds : writer[k] = {r} /\ k = r \o <<".png">>

\* Two concurrent invocations with distinct request identifiers have both
\* written, and the bucket holds both images.
C8_Witness ==
  \E i, j \in DOMAIN inv :
    /\ inv[i].requestId # inv[j].requestId
    /\ C8_Wrote(inv[i]) /\ C8_Wrote(inv[j])
    /\ inv[i].imageFileName \in DOMAIN bucket
    /\ inv[j].imageFileName \in DOMAIN bucket
    /\ bucket[inv[i].imageFileName] = inv[i].imageBuffer
    /\ bucket[inv[j].imageFileName] = inv[j].imageBuffer
    /\ inv[i].imageBuffer # inv[j].imageBuffer

(***************************************************************************)
(* C9 (as claimed).  The Generator proceeds to the model call if and only  *)
(* if the company identifier is exactly equal to the expected one, in      *)
(* value and in type; otherwise it answers 403.                            *)
(***************************************************************************)
C9_Proceeded(s) == s.calls # <<>>

C9_ExactMatch ==
  \A i \in DOMAIN inv :
    (inv[i].fn \in Generators /\ Request(inv[i]).ok) =>
      /\ C9_Proceeded(inv[i])
           <=> StrictEq(Request(inv[i]).companyId, env.companyId)
      /\ ~StrictEq(Request(inv[i]).companyId, env.companyId) =>
           inv[i].response.statusCode = 403

(***************************************************************************)
(* C9 (amended).  The Generator proceeds to the model call if and only if  *)
(* the company identifier equals the expected one under JavaScript's       *)
(* loose equality: with an expected text, the same text, a number or       *)
(* boolean of the numeric value of that text, or an array whose joined     *)
(* text is that text; with no expected identifier configured, null or an   *)
(* absent identifier.  Every other identifier is answered 403.             *)
(***************************************************************************)
C9_Accepted(id, expected) ==
  IF expected.t = "undefined" THEN id.t \in {"null", "undefined"}
  ELSE \/ id.t = "string" /\ id.v = expected.v
       \/ id.t = "number" /\ StringToNumber(expected.v) = JNum(id.v)
       \/ id.t = "boolean"
            /\ StringToNumber(expected.v) = JNum(IF id.v THEN 1 ELSE 0)
       \/ id.t = "array" /\ Join(id.v) = expected.v

C9_LooseMatch ==
  \A i \in DOMAIN inv :
    (inv[i].fn \in Generators /\ Request(inv[i]).ok) =>
      /\ C9_Proceeded(inv[i])
           <=> C9_Accepted(Request(inv[i]).companyId, env.companyId)
      /\ ~C9_Accepted(Request(inv[i]).companyId, env.companyId) =>
           inv[i].response = AccessDenied

\* The number 1 was accepted for the expected text "1".
C9_Witness ==
  \E i \in DOMAIN inv :
    /\ inv[i].fn \in Generators
    /\ Request(inv[i]).ok
    /\ Request(inv[i]).companyId = JNum(1)
    /\ env.companyId = JStr(<<"1">>)
    /\ inv[i].calls = <<"model">>

(***************************************************************************)
(* C10.  In every invocation each call is issued at most once and the      *)
(* calls are awaited in order: the authorization check precedes the model  *)
(* call, the put is issued only after the model call has succeeded, the    *)
(* URL is signed only after the put has succeeded, the response is         *)
(* returned only after the last call has ended, and the inline variant     *)
(* issues no storage call.                                                 *)
(***************************************************************************)
\* The calls of a handler, in the order of its code.
C10_Calls(fn) ==
  CASE fn = "inline" -> <<"model">>
    [] fn = "signed" -> <<"model", "put", "sign">>
    [] fn = "retrieval" -> <<"model", "put">>
    [] fn = "retrieve" -> <<"get">>
    [] OTHER -> <<>>

C10_InOrder(s) ==
  /\ Len(s.calls) <= Len(C10_Calls(s.fn))
  /\ s.calls = SubSeq(C10_Calls(s.fn), 1, Len(s.calls))
  /\ Len(s.results) <= Len(s.calls)
  /\ Len(s.calls) <= Len(s.results) + 1
  /\ \A k \in 2..Len(s.calls) : s.results[k - 1] = "ok"
  /\ (s.fn \in Generators /\ s.calls # <<>>) => Authorized(s)
  /\ s.pc = "done" => Len(s.results) = Len(s.calls)
  /\ s.pc \in {"model", "put", "sign", "get"} =>
       /\ Len(s.calls) = Len(s.results) + 1
       /\ s.calls[Len(s.calls)] = s.pc
  /\ s.pc \in {"model", "put", "sign", "get", "read"} => s.response = NoResponse

\* As claimed: an invocation issues at most two calls.
C10_AtMostTwoCalls ==
  \A i \in DOMAIN inv : C10_InOrder(inv[i]) /\ Len(inv[i].calls) <= 2

\* As amended: at most three calls, the third one the signing of the
\* signed-URL variant.
C10_AtMostThreeCalls ==
  \A i \in DOMAIN inv :
    /\ C10_InOrder(inv[i])
    /\ Len(inv[i].calls) <= 3
    /\ inv[i].fn # "signed" => Len(inv[i].calls) <= 2

\* A signed-URL Generator has answered after its three calls.
C10_Witness ==
  \E i \in DOMAIN inv :
    /\ inv[i].fn = "signed"
    /\ inv[i].pc = "done"
    /\ inv[i].calls = <<"model", "put", "sign">>
    /\ inv[i].results = <<"ok", "ok", "ok">>
    /\ inv[i].response.statusCode = 200

(***************************************************************************)
(* C11 (as claimed).  In every Generator variant the parameters sent to    *)
(* the model have image count 1, equal height and width, quality           *)
(* "standard", scale 8, and a seed that is an integer drawn for the        *)
(* invocation from 0..1048575: it follows the invocation's Math.random().  *)
(***************************************************************************)
\* The invocation has sent its payload and awaits the model.
C11_Sends(s) == s.fn \in Generators /\ s.pc = "model"

C11_Config(s) == s.payload.imageGenerationConfig

\* The parameters that are the same numbers in every invocation.
C11_Fixed(s) ==
  /\ s.payload.taskType = <<"TEXT_IMAGE">>
  /\ s.payload.textToImageParams.text = Request(s).prompt
  /\ C11_Config(s).numberOfImages = 1
  /\ C11_Config(s).height = C11_Config(s).width
  /\ C11_Config(s).quality = <<"standard">>
  /\ C11_Config(s).cfgScale = 8

\* The seed is in the range and follows what Math.random() returned to the
\* invocation: the least fraction gives the least seed, the greatest one the
\* greatest seed.
C11_Drawn(s) ==
  /\ C11_Config(s).seed \in 0..1048575
  /\ s.random.num = 0 => C11_Config(s).seed = 0
  /\ s.random.num = s.random.den - 1 => C11_Config(s).seed = 1048575

C11_SeedDrawnInEveryVariant ==
  \A i \in DOMAIN inv :
    C11_Sends(inv[i]) => C11_Fixed(inv[i]) /\ C11_Drawn(inv[i])

(***************************************************************************)
(* C11 (as amended).  Every Generator variant sends image count 1, equal   *)
(* height and width, quality "standard" and scale 8.  The variants that    *)
(* store the image send 320 by 320 and a seed drawn for the invocation     *)
(* from 0..1048575; the inline variant sends 512 by 512 and the seed 42    *)
(* in every invocation, whatever Math.random() would return.               *)
(***************************************************************************)
C11_SeedDrawnWhenStoring ==
  \A i \in DOMAIN inv :
    C11_Sends(inv[i]) =>
      /\ C11_Fixed(inv[i])
      /\ inv[i].fn \in {"signed", "retrieval"} =>
           /\ C11_Config(inv[i]).height = 320
           /\ C11_Drawn(inv[i])
      /\ inv[i].fn = "inline" =>
           /\ C11_Config(inv[i]).height = 512
           /\ C11_Config(inv[i]).seed = 42

\* Two concurrent invocations of the storing variants have sent the same
\* prompt, one with the least and one with the greatest seed.
C11_Witness ==
  \E i, j \in DOMAIN inv :
    /\ i # j
    /\ C11_Sends(inv[i]) /\ C11_Sends(inv[j])
    /\ inv[i].fn = "signed" /\ inv[j].fn = "retrieval"
    /\ inv[i].payload.textToImageParams = inv[j].payload.textToImageParams
    /\ C11_Config(inv[i]).seed = 0
    /\ C11_Config(inv[j]).seed = 1048575

(***************************************************************************)
(* C12.  In every step of every interleaving of invocations the bucket     *)
(* changes only by a storing Generator, authorized and with its image      *)
(* generated, putting the single key "<its requestId>.png": no key is      *)
(* removed and no other key changes.  A step of a Retriever, of an inline  *)
(* Generator, of an invocation answered 403 or of one whose model call     *)
(* failed leaves the bucket unchanged; when the signing fails the object   *)
(* is still in the bucket and the response is the fallback.                *)
(***************************************************************************)
\* The step is the successful PutObject of the storing Generator i.
C12_Puts(i) ==
  LET key == inv[i].requestId \o <<".png">> IN
  /\ inv[i].fn \in {"signed", "retrieval"}
  /\ inv[i].pc = "put"
  /\ Authorized(inv[i])
  /\ inv[i].results = <<"ok">>
  /\ inv'[i].results = <<"ok", "ok">>
  /\ DOMAIN bucket' = DOMAIN bucket \cup {key}
  /\ bucket'[key] = inv[i].imageBuffer
  /\ \A k \in DOMAIN bucket \ {key} : bucket'[k] = bucket[k]
  /\ \A j \in DOMAIN inv \ {i} : inv'[j] = inv[j]

\* The step is one of an invocation that does not write: a Retriever, an
\* inline Generator, an invocation answered 403 or whose model call failed.
C12_StepOfNonWriter(i) ==
  /\ inv'[i] # inv[i]
  /\ \/ inv'[i].fn \in {"inline", "retrieve"}
     \/ inv'[i].response = AccessDenied
     \/ inv'[i].results = <<"failed">>

\* The step is the failure of getSignedUrl in the invocation i.
C12_SigningFails(i) ==
  /\ inv[i].pc = "sign"
  /\ inv'[i].pc = "done"
  /\ inv'[i].results = <<"ok", "ok", "failed">>

C12_BucketFrame ==
  [][/\ bucket' # bucket => \E i \in DOMAIN inv : C12_Puts(i)
     /\ DOMAIN bucket \subseteq DOMAIN bucket'
     /\ \A i \in DOMAIN inv :
          /\ C12_StepOfNonWriter(i) => bucket' = bucket
          /\ C12_SigningFails(i) =>
               /\ bucket' = bucket
               /\ inv[i].imageFileName \in DOMAIN bucket'
               /\ inv'[i].response = FallbackResponse]_vars

\* The signing has failed in a signed-URL Generator: the caller has the
\* fallback response and the bucket has the image, while a Retriever and an
\* inline Generator have run in the other execution environment.
C12_Witness ==
  \E i, j \in DOMAIN inv :
    /\ inv[i].fn = "signed"
    /\ inv[i].pc = "done"
    /\ inv[i].results = <<"ok", "ok", "failed">>
    /\ inv[i].response = FallbackResponse
    /\ inv[i].imageFileName \in DOMAIN bucket
    /\ bucket[inv[i].imageFileName] = inv[i].imageBuffer
    /\ inv[j].fn \in {"inline", "retrieve"}
    /\ inv[j].pc = "done"

(***************************************************************************)
(* C13.  The Retriever never ends with an exception: an invocation of it   *)
(* awaits its storage call or has returned a response with status 200 or   *)
(* 303, whatever the event; when the event has no path that is a text (no  *)
(* requestContext, no http object, a path that is no text) it has returned *)
(* the 303 redirect to the fallback image and has issued no storage call.  *)
(***************************************************************************)
\* The value has the field and the field holds an object.
C13_HasObject(o, f) ==
  o.t = "object" /\ f \in DOMAIN o.v /\ o.v[f].t = "object"

\* event.requestContext.http.path is a text.
C13_HasPath(event) ==
  /\ C13_HasObject(event, "requestContext")
  /\ C13_HasObject(event.v.requestContext, "http")
  /\ "path" \in DOMAIN event.v.requestContext.v.http.v
  /\ event.v.requestContext.v.http.v.path.t = "string"

C13_RetrieverIsTotal ==
  \A i \in DOMAIN inv :
    inv[i].fn = "retrieve" =>
      /\ inv[i].pc \in {"get", "read", "done"}
      /\ inv[i].pc = "done" => inv[i].response.statusCode \in {200, 303}
      /\ inv[i].pc = "done" /\ inv[i].response.statusCode = 303 =>
           inv[i].response = FallbackRedirect
      /\ ~C13_HasPath(inv[i].event) =>
           /\ inv[i].pc = "done"
           /\ inv[i].response = FallbackRedirect
           /\ inv[i].calls = <<>>

\* The Retriever has answered an event that has no requestContext with the
\* redirect and without a storage call.
C13_Witness ==
  \E i \in DOMAIN inv :
    /\ inv[i].fn = "retrieve"
    /\ inv[i].event.t = "object"
    /\ "requestContext" \notin DOMAIN inv[i].event.v
    /\ inv[i].pc = "done"
    /\ inv[i].response = FallbackRedirect
    /\ inv[i].calls = <<>>
    /\ inv[i].results = <<>>

====
